---- MODULE Spec2Model ----
(***************************************************************************)
(* Model of the flaskapp microblog: the followers association table, the   *)
(* User methods of app/models.py (follow, unfollow, is_following,          *)
(* followed_posts, set_password, check_password, reset tokens) and the     *)
(* request handlers of app/routes.py that call them.                       *)
(***************************************************************************)
EXTENDS Integers, Sequences, FiniteSets, TLC

\* ------------------------------------------------------------------ bounds
\* number of rows the user table may hold
NumUsers == 2
\* number of rows the post table may hold
MaxPosts == 2
\* timestamps a post may carry: 1..MaxTime
MaxTime == 2

\* number of rows the post table may hold when pages of the feed are requested
MaxFeedPosts == 3

\* number of requests that may be in progress at once
NumRequests == 2
\* the clock runs over 0..MaxClock
MaxClock == 2
\* lifetimes a reset token is issued with: 0..MaxTtl
MaxTtl == 1
\* plaintext passwords: 1..NumPasswords
NumPasswords == 2
\* salts generate_password_hash may draw: 1..NumSalts
NumSalts == 2
\* about_me texts a form may carry: 1..NumAbouts
NumAbouts == 1
\* number of rows the post table may hold while follow and unfollow are observed
MaxFramePosts == 1
\* number of delivery threads send_email may start
MaxMails == 2

UserIds == 1..NumUsers
Requests == 1..NumRequests
Times == 1..MaxTime
\* Python's None
None == 0

VARIABLES
    users,      \* table "user": sequence of rows, the row at index i has id i
    followers,  \* table "followers": number of rows per (follower_id, followed_id)
    posts,      \* table "post": sequence of rows, the row at index i has id i
    last,       \* the operation handled last and its arguments
    view,       \* the result of the feed query made last
    req,        \* the requests in progress: position in the handler and its locals
    now,        \* the clock, time(), in seconds
    token,      \* the reset token issued last
    verified,   \* the outcome of the verify_reset_password_token call made last
    plain,      \* per user, the plaintext given to the latest set_password call
    checked,    \* the outcome of the check_password call made last
    form,       \* the profile form submitted last and the caller's row at that time
    mail        \* the delivery threads started by send_email, in order of their start

vars == <<users, followers, posts, last, view, req, now, token, verified, plain, checked,
          form, mail>>

NoOp == [op |-> "none", a |-> None, b |-> None, had |-> FALSE]

\* ------------------------------------------------------------ social graph
\* The set of stored user ids (primary keys are assigned 1, 2, ...).
StoredIds == 1..Len(users)

\* User.is_following: self.followed.filter(followed_id == user.id).count() > 0
is_following(a, b) == followers[<<a, b>>] > 0

\* self.followed.all(): the users reached through the rows follower_id = a
followed(a) == {b \in StoredIds : followers[<<a, b>>] > 0}

\* backref user.followers.all(): the users reached through the rows followed_id = b
followers_of(b) == {a \in StoredIds : followers[<<a, b>>] > 0}

\* self.followed.append(user): one INSERT into the association table
append_row(a, b) == [followers EXCEPT ![<<a, b>>] = @ + 1]

\* a DELETE that lacks the followed_id condition: every row of follower a goes
remove_rows_of_follower(a, b) ==
    [p \in DOMAIN followers |-> IF p[1] = a THEN 0 ELSE followers[p]]

\* self.followed.remove(user): DELETE ... WHERE follower_id = a AND followed_id = b
remove_row(a, b) == [followers EXCEPT ![<<a, b>>] = 0]

\* User.follow without the is_following guard
follow_unguarded(a, b) ==
    /\ a \in StoredIds /\ b \in StoredIds
    /\ followers' = append_row(a, b)
    /\ UNCHANGED <<users, posts>>

\* User.follow followed by db.session.commit()
follow(a, b) ==
    /\ a \in StoredIds /\ b \in StoredIds
    /\ followers' = IF ~is_following(a, b) THEN append_row(a, b) ELSE followers
    /\ UNCHANGED <<users, posts>>

\* User.unfollow that leaves the row in place
unfollow_keeps_row(a, b) ==
    /\ a \in StoredIds /\ b \in StoredIds
    /\ followers' = followers
    /\ UNCHANGED <<users, posts>>

\* the flush of one removal from self.followed: the DELETE matches every row
\* of the pair and the unit of work expects it to match exactly one; any other
\* count raises StaleDataError and the transaction is rolled back
delete_row(a, b) == IF followers[<<a, b>>] = 1 THEN remove_row(a, b) ELSE followers

\* User.unfollow followed by db.session.commit()
unfollow(a, b) ==
    /\ a \in StoredIds /\ b \in StoredIds
    /\ followers' = IF is_following(a, b) THEN delete_row(a, b) ELSE followers
    /\ UNCHANGED <<users, posts>>

\* generate_password_hash has not been called: password_hash is NULL
NoHash == [salt |-> None, digest |-> <<None, None>>]

\* User(username=..., email=...); db.session.add; db.session.commit
\* (tests.py: the users of a test are distinct and carry no password)
add_user ==
    /\ users' = Append(users, [username |-> Len(users) + 1, email |-> Len(users) + 1,
                               password_hash |-> NoHash, about_me |-> None])
    /\ UNCHANGED <<followers, posts>>

\* Post(body=..., author=u, timestamp=ts); db.session.add; db.session.commit
new_post(u, ts) ==
    /\ u \in StoredIds
    /\ posts' = Append(posts, [id |-> Len(posts) + 1, user_id |-> u, timestamp |-> ts])
    /\ UNCHANGED <<users, followers>>

\* ------------------------------------------------------------------- feed
PostIds == 1..Len(posts)

\* the ids a query result lists
Range(q) == {q[i] : i \in 1..Len(q)}

\* the join taken on the wrong column: the posts of the users who follow u
join_rows_swapped(u) == [p \in PostIds |-> followers[<<posts[p].user_id, u>>]]

\* Post.query.join(followers, followers.c.followed_id == Post.user_id)
\*     .filter(followers.c.follower_id == self.id)
\* one joined row per pair (post, association row): the number of joined rows
\* each post contributes
join_rows(u) == [p \in PostIds |-> followers[<<u, posts[p].user_id>>]]

\* Post.query.filter_by(user_id=self.id)
my_posts(u) == [p \in PostIds |-> IF posts[p].user_id = u THEN 1 ELSE 0]

\* UNION ALL: every row of both operands
union_all(q1, q2) == [p \in DOMAIN q1 |-> q1[p] + q2[p]]

\* Query.union: SQL UNION, one copy of each distinct row of the operands
union(q1, q2) == [p \in DOMAIN q1 |-> IF q1[p] + q2[p] > 0 THEN 1 ELSE 0]

\* order_by(Post.timestamp.desc()): the rows in non-increasing timestamp order.
\* The statement names no second sort key, so rows with equal timestamps come
\* in whatever order the database produces: every such arrangement is a result.
RECURSIVE order_by_timestamp_desc(_)
order_by_timestamp_desc(rows) ==
    LET left == {p \in DOMAIN rows : rows[p] > 0}
    IN  IF left = {} THEN {<<>>}
        ELSE LET heads == {p \in left : \A r \in left : posts[r].timestamp <= posts[p].timestamp}
             IN  UNION {{<<p>> \o rest : rest \in order_by_timestamp_desc([rows EXCEPT ![p] = @ - 1])}
                        : p \in heads}

\* User.followed_posts: the results the query can return
followed_posts(u) == order_by_timestamp_desc(union(join_rows(u), my_posts(u)))

\* ------------------------------------------------------------- pagination
Min(x, y) == IF x <= y THEN x ELSE y

\* Query.offset(n): the rows after the first n
offset(q, n) == SubSeq(q, n + 1, Len(q))

\* Query.limit(n): the first n rows
limit(q, n) == SubSeq(q, 1, Min(n, Len(q)))

\* config.Config, the object app.config is loaded from
Config ==
    [SECRET_KEY |-> "secret_password",
     SQLALCHEMY_DATABASE_URI |-> "sqlite:///app.db",
     SQLALCHEMY_TRACK_MODIFICATIONS |-> FALSE,
     MAIL_SERVER |-> "None",
     MAIL_PORT |-> 25,
     MAIL_USE_TLS |-> FALSE,
     MAIL_USERNAME |-> "None",
     MAIL_PASSWORD |-> "None",
     ADMINS |-> <<"sozzifer@gmail.com">>]

NoView ==
    [op |-> "none", u |-> None, req_page |-> 0, page |-> 0, per_page |-> 0, q |-> <<>>,
     items |-> <<>>, total |-> 0, has_next |-> FALSE, has_prev |-> FALSE, status |-> "none"]

\* Query.paginate(page=page, per_page=per_page, error_out=False) on the ordered
\* rows q its first statement returns and the total its second statement
\* counts: a page below 1 becomes page 1 (error_out is off), the items are
\* limit(per_page).offset((page - 1) * per_page), pages = ceil(total / per_page),
\* has_prev = page > 1, has_next = page < pages
paginate(q, total, page, per_page) ==
    LET pg == IF page < 1 THEN 1 ELSE page
        pages == IF total = 0 THEN 0 ELSE (total + per_page - 1) \div per_page
    IN  [page |-> pg, per_page |-> per_page,
         items |-> limit(offset(q, (pg - 1) * per_page), per_page),
         has_prev |-> pg > 1, has_next |-> pg < pages]

\* u.followed_posts().all()
followed_posts_all(u) ==
    /\ u \in StoredIds
    /\ \E q \in followed_posts(u) :
          view' = [NoView EXCEPT !.op = "all", !.u = u, !.q = q, !.items = q, !.status = "ok"]
    /\ UNCHANGED <<users, followers, posts>>

\* Query.count() on the feed of u: the number of rows of the union
count(u) ==
    LET rows == union(join_rows(u), my_posts(u))
    IN  Cardinality({p \in DOMAIN rows : rows[p] > 0})

\* current_user.followed_posts().paginate(page=page, per_page=per_page,
\* error_out=False), first statement: the SELECT with LIMIT and OFFSET that
\* fetches the items of the page
paginate_items(u, page, per_page) ==
    /\ u \in StoredIds
    /\ view.op # "items"
    /\ \E q \in followed_posts(u) :
          LET pg == paginate(q, Len(q), page, per_page)
          IN  view' = [NoView EXCEPT !.op = "items", !.u = u, !.req_page = page,
                                    !.page = pg.page, !.per_page = pg.per_page, !.q = q,
                                    !.items = pg.items, !.status = "counting"]
    /\ UNCHANGED <<users, followers, posts>>

\* paginate, second statement: the total is counted by a second SELECT on the
\* rows stored by then, and the flags are computed from it
paginate_count ==
    /\ view.op = "items"
    /\ LET total == count(view.u)
           pg == paginate(view.q, total, view.req_page, view.per_page)
       IN  view' = [view EXCEPT !.op = "paginate", !.total = total,
                                !.has_next = pg.has_next, !.has_prev = pg.has_prev,
                                !.status = "ok"]
    /\ UNCHANGED <<users, followers, posts>>

\* index, GET: the page size is read from app.config["POSTS_PER_PAGE"] while
\* the arguments of paginate are evaluated; a key the configuration does not
\* hold raises KeyError before any query is made
index(u, page) ==
    IF "POSTS_PER_PAGE" \in DOMAIN Config
    THEN paginate_items(u, page, Config["POSTS_PER_PAGE"])
    ELSE /\ u \in StoredIds
         /\ view' = [NoView EXCEPT !.op = "index", !.u = u, !.req_page = page,
                                   !.status = "KeyError"]
         /\ UNCHANGED <<users, followers, posts>>

\* ------------------------------------------------- the follow request
\* a request slot no handler is using
Idle ==
    [kind |-> "none", pc |-> "idle", a |-> None, b |-> None, seen |-> FALSE,
     pending |-> FALSE, username |-> None, email |-> None, about_me |-> None,
     old_username |-> None, old_about_me |-> None, errors |-> {}, out |-> "none"]

\* the callers of a route: a logged-in user, or nobody (current_user is the
\* anonymous user)
Callers == UserIds \cup {None}

\* routes.follow without the comparison of user with current_user
follow_begin_no_self_check(r, a, b) ==
    /\ req[r].pc = "idle"
    /\ a \in StoredIds \cup {None}
    /\ req' = [req EXCEPT ![r] =
                  IF a = None
                  THEN [Idle EXCEPT !.kind = "follow", !.pc = "done", !.a = a, !.b = b,
                                    !.out = "redirect_login"]
                  ELSE IF b \notin StoredIds
                  THEN [Idle EXCEPT !.kind = "follow", !.pc = "done", !.a = a, !.b = b,
                                    !.out = "not_found"]
                  ELSE [Idle EXCEPT !.kind = "follow", !.pc = "check", !.a = a, !.b = b]]
    /\ UNCHANGED <<users, followers, posts>>

\* routes.follow up to the call of current_user.follow(user): current_user is
\* a, the username in the URL is that of b (or of nobody when b is not stored);
\* @login_required sends a caller who is not logged in to the login page
\* before the handler body runs
follow_begin(r, a, b) ==
    /\ req[r].pc = "idle"
    /\ a \in StoredIds \cup {None}
    /\ req' = [req EXCEPT ![r] =
                  IF a = None
                  THEN [Idle EXCEPT !.kind = "follow", !.pc = "done", !.a = a, !.b = b,
                                    !.out = "redirect_login"]
                  ELSE IF b \notin StoredIds
                  THEN [Idle EXCEPT !.kind = "follow", !.pc = "done", !.a = a, !.b = b,
                                    !.out = "not_found"]
                  ELSE IF b = a
                  THEN [Idle EXCEPT !.kind = "follow", !.pc = "done", !.a = a, !.b = b,
                                    !.out = "cannot_follow_yourself"]
                  ELSE [Idle EXCEPT !.kind = "follow", !.pc = "check", !.a = a, !.b = b]]
    /\ UNCHANGED <<users, followers, posts>>

\* User.follow: the is_following query, a SELECT count on the stored rows
follow_check(r) ==
    /\ req[r].kind = "follow" /\ req[r].pc = "check"
    /\ req' = [req EXCEPT ![r].seen = is_following(req[r].a, req[r].b), ![r].pc = "insert"]
    /\ UNCHANGED <<users, followers, posts>>

\* User.follow: self.followed.append(user), a row pending in the request's session
follow_insert(r) ==
    /\ req[r].kind = "follow" /\ req[r].pc = "insert"
    /\ req' = [req EXCEPT ![r].pending = ~req[r].seen, ![r].pc = "commit"]
    /\ UNCHANGED <<users, followers, posts>>

\* db.session.commit(): the pending row is inserted; the table declares no
\* primary key and no unique constraint, so no insert is refused
follow_commit(r) ==
    /\ req[r].kind = "follow" /\ req[r].pc = "commit"
    /\ followers' = IF req[r].pending THEN append_row(req[r].a, req[r].b) ELSE followers
    /\ req' = [req EXCEPT ![r].pc = "done", ![r].out = "followed"]
    /\ UNCHANGED <<users, posts>>

\* routes.unfollow up to the call of current_user.unfollow(user): the route
\* carries no @login_required, so the body runs for every caller; for the
\* anonymous user the comparison user == current_user is false
unfollow_begin(r, a, b) ==
    /\ req[r].pc = "idle"
    /\ a \in StoredIds \cup {None}
    /\ req' = [req EXCEPT ![r] =
                  IF b \notin StoredIds
                  THEN [Idle EXCEPT !.kind = "unfollow", !.pc = "done", !.a = a, !.b = b,
                                    !.out = "not_found"]
                  ELSE IF b = a
                  THEN [Idle EXCEPT !.kind = "unfollow", !.pc = "done", !.a = a, !.b = b,
                                    !.out = "cannot_unfollow_yourself"]
                  ELSE [Idle EXCEPT !.kind = "unfollow", !.pc = "check", !.a = a, !.b = b]]
    /\ UNCHANGED <<users, followers, posts>>

\* routes.unfollow: current_user.unfollow(user). The anonymous user object
\* has no method unfollow: the call raises AttributeError, which the handler
\* does not catch. Otherwise User.unfollow runs its is_following query, a
\* SELECT count on the stored rows
unfollow_check(r) ==
    /\ req[r].kind = "unfollow" /\ req[r].pc = "check"
    /\ req' = [req EXCEPT ![r] =
                  IF req[r].a = None
                  THEN [@ EXCEPT !.pc = "done", !.out = "AttributeError"]
                  ELSE [@ EXCEPT !.seen = is_following(req[r].a, req[r].b), !.pc = "remove"]]
    /\ UNCHANGED <<users, followers, posts>>

\* User.unfollow: self.followed.remove(user), a removal pending in the
\* request's session
unfollow_remove(r) ==
    /\ req[r].kind = "unfollow" /\ req[r].pc = "remove"
    /\ req' = [req EXCEPT ![r].pending = req[r].seen, ![r].pc = "commit"]
    /\ UNCHANGED <<users, followers, posts>>

\* db.session.commit(): the pending removal is flushed as one DELETE for the
\* pair; when it does not match exactly one row (another request removed the
\* row meanwhile, or the pair has several rows) StaleDataError is raised,
\* which the handler does not catch, and the rows stay
unfollow_commit(r) ==
    /\ req[r].kind = "unfollow" /\ req[r].pc = "commit"
    /\ followers' = IF req[r].pending THEN delete_row(req[r].a, req[r].b) ELSE followers
    /\ req' = [req EXCEPT ![r].pc = "done",
                          ![r].out = IF req[r].pending /\ followers[<<req[r].a, req[r].b>>] # 1
                                     THEN "StaleDataError" ELSE "unfollowed"]
    /\ UNCHANGED <<users, posts>>

\* ------------------------------------------------------------ credentials
Passwords == 1..NumPasswords
Salts == 1..NumSalts

\* werkzeug generate_password_hash: a salt is drawn and the digest of salt and
\* password is stored next to it (the digest is taken to be collision-free)
generate_password_hash(password, salt) == [salt |-> salt, digest |-> <<salt, password>>]

\* werkzeug check_password_hash: the digest of the stored salt and the given
\* password is compared with the stored digest
check_password_hash(pwhash, password) == pwhash.digest = <<pwhash.salt, password>>

\* set_password that keeps a hash already stored
set_password_keeps_first(u, password, salt) ==
    /\ u \in StoredIds
    /\ users' = [users EXCEPT ![u].password_hash =
                    IF @ = NoHash THEN generate_password_hash(password, salt) ELSE @]
    /\ UNCHANGED <<followers, posts>>

\* User.set_password
set_password(u, password, salt) ==
    /\ u \in StoredIds
    /\ users' = [users EXCEPT ![u].password_hash = generate_password_hash(password, salt)]
    /\ UNCHANGED <<followers, posts>>

NoCheck == [op |-> "none", u |-> None, q |-> None, result |-> FALSE, status |-> "none"]

\* User.check_password; on a user whose password_hash is NULL
\* check_password_hash(None, ...) raises AttributeError
check_password(u, q) ==
    /\ u \in StoredIds
    /\ checked' = IF users[u].password_hash = NoHash
                  THEN [op |-> "check_password", u |-> u, q |-> q, result |-> FALSE,
                        status |-> "AttributeError"]
                  ELSE [op |-> "check_password", u |-> u, q |-> q,
                        result |-> check_password_hash(users[u].password_hash, q),
                        status |-> "returned"]
    /\ UNCHANGED <<users, followers, posts>>

\* the observer's record of the plaintext handed to set_password
Remember(u, password) ==
    plain' = [plain EXCEPT ![u] = [password |-> password, calls |-> Min(@.calls + 1, 2)]]

\* ----------------------------------------------------------- reset tokens
\* the keys a token may be signed with: the configured one and a foreign one
Keys == {Config.SECRET_KEY, "other_key"}

\* a string that is no JSON Web Token
Malformed == [wellformed |-> FALSE, key |-> "", reset_password |-> None, exp |-> 0]

NoToken == Malformed

\* jwt.encode(payload, key, algorithm="HS256"): the signature is taken to be
\* unforgeable, a token carries the key it was signed with
jwt_encode(payload, key) ==
    [wellformed |-> TRUE, key |-> key, reset_password |-> payload.reset_password,
     exp |-> payload.exp]

\* the token strings a caller may present
Tokens ==
    {Malformed} \cup
    {jwt_encode([reset_password |-> u, exp |-> e], k) :
        u \in UserIds, e \in 0..(MaxClock + MaxTtl), k \in Keys}

\* jwt.decode that accepts a token at the instant of its expiry
jwt_decode_late(t, key, at) ==
    IF ~t.wellformed THEN [ok |-> FALSE, reset_password |-> None]
    ELSE IF t.key # key THEN [ok |-> FALSE, reset_password |-> None]
    ELSE IF t.exp < at THEN [ok |-> FALSE, reset_password |-> None]
    ELSE [ok |-> TRUE, reset_password |-> t.reset_password]

\* jwt.decode(token, key, algorithms=["HS256"]): raises (ok = FALSE) on a
\* string that is no token, on a signature made with another key and on an
\* expired token (exp <= now); otherwise returns the payload
jwt_decode(t, key, at) ==
    IF ~t.wellformed THEN [ok |-> FALSE, reset_password |-> None]
    ELSE IF t.key # key THEN [ok |-> FALSE, reset_password |-> None]
    ELSE IF t.exp <= at THEN [ok |-> FALSE, reset_password |-> None]
    ELSE [ok |-> TRUE, reset_password |-> t.reset_password]

\* User.query.get(id): the row with that primary key, or None
query_get(id) == IF id \in StoredIds THEN id ELSE None

NoVerify == [op |-> "none", token |-> Malformed, at |-> 0, result |-> None, status |-> "none"]

\* time() advances
tick ==
    /\ now' = now + 1
    /\ UNCHANGED <<users, followers, posts, token>>

\* User.get_reset_password_token(expires_in)
get_reset_password_token(u, expires_in) ==
    /\ u \in StoredIds
    /\ token' = jwt_encode([reset_password |-> u, exp |-> now + expires_in], Config.SECRET_KEY)
    /\ UNCHANGED <<users, followers, posts, now>>

\* User.verify_reset_password_token(token): any exception of jwt.decode is
\* swallowed and None returned; otherwise the user with the decoded id
verify_reset_password_token(t) ==
    /\ LET d == jwt_decode(t, Config.SECRET_KEY, now)
       IN  verified' = [op |-> "verify", token |-> t, at |-> now,
                        result |-> IF d.ok THEN query_get(d.reset_password) ELSE None,
                        status |-> "returned"]
    /\ UNCHANGED <<users, followers, posts, now, token>>

\* ------------------------------------------------ registration, profile
\* the usernames and email addresses typed into the forms
Usernames == {"john", "susan"}
Emails == {"john@example.com", "susan@example.com"}
Abouts == 1..NumAbouts

\* User.query.filter_by(username=name).first() is not None
username_taken(name) == \E i \in StoredIds : users[i].username = name

\* User.query.filter_by(email=address).first() is not None
email_taken(address) == \E i \in StoredIds : users[i].email = address

\* a user table whose columns carry no unique constraint
unique_violation_unchecked(rows) == FALSE

\* username and email are declared unique=True: the database refuses a
\* commit that would leave two rows with the same username or the same email
unique_violation(rows) ==
    \E i \in 1..Len(rows), j \in 1..Len(rows) :
        /\ i # j
        /\ \/ rows[i].username = rows[j].username
           \/ rows[i].email = rows[j].email

\* register, POST by a caller who is not logged in, up to the end of
\* RegistrationForm.validate_username: the name is looked up and the error
\* collected when a row holds it
register_validate_username(r, username, email) ==
    /\ req[r].pc = "idle"
    /\ req' = [req EXCEPT ![r] =
                  [Idle EXCEPT !.kind = "register", !.pc = "validate_email",
                               !.username = username, !.email = email,
                               !.errors = IF username_taken(username)
                                          THEN {"Username already registered."} ELSE {}]]
    /\ UNCHANGED <<users, followers, posts>>

\* register, the rest of form.validate_on_submit(): validate_email looks the
\* address up with a SELECT of its own; with any error collected the form is
\* rendered again
register_validate_email(r) ==
    /\ req[r].kind = "register" /\ req[r].pc = "validate_email"
    /\ LET errs == req[r].errors \cup
                   (IF email_taken(req[r].email)
                    THEN {"Email address already registered."} ELSE {})
       IN  req' = [req EXCEPT ![r] =
                      IF errs # {}
                      THEN [Idle EXCEPT !.kind = "register", !.pc = "done", !.errors = errs,
                                        !.out = "form_errors"]
                      ELSE [@ EXCEPT !.pc = "commit"]]
    /\ UNCHANGED <<users, followers, posts>>

\* register after validation: User(username, email), set_password,
\* db.session.add, db.session.commit; a commit the unique constraints refuse
\* raises IntegrityError, which the handler does not catch
register_commit(r, password, salt) ==
    /\ req[r].kind = "register" /\ req[r].pc = "commit"
    /\ LET row == [username |-> req[r].username, email |-> req[r].email,
                   password_hash |-> generate_password_hash(password, salt),
                   about_me |-> None]
           rows == Append(users, row)
       IN  IF unique_violation(rows)
           THEN /\ users' = users
                /\ req' = [req EXCEPT ![r] = [Idle EXCEPT !.kind = "register", !.pc = "done",
                                                          !.out = "IntegrityError"]]
           ELSE /\ users' = rows
                /\ req' = [req EXCEPT ![r] = [Idle EXCEPT !.kind = "register", !.pc = "done",
                                                          !.out = "registered"]]
    /\ UNCHANGED <<followers, posts>>

\* edit_profile, POST: EditProfileForm(current_user.username). The caller's
\* row is loaded into the request's session; the form keeps the loaded
\* username as original_username
edit_profile_load(r, u, username, about_me) ==
    /\ req[r].pc = "idle"
    /\ u \in StoredIds
    /\ req' = [req EXCEPT ![r] =
                  [Idle EXCEPT !.kind = "edit_profile", !.pc = "validate", !.a = u,
                               !.username = username, !.about_me = about_me,
                               !.old_username = users[u].username,
                               !.old_about_me = users[u].about_me]]
    /\ UNCHANGED <<users, followers, posts>>

\* EditProfileForm.validate_username without the comparison with
\* original_username: every name a row holds is refused, the caller's own too
edit_profile_validate_no_original(r) ==
    /\ req[r].kind = "edit_profile" /\ req[r].pc = "validate"
    /\ req' = [req EXCEPT ![r] =
                  IF username_taken(req[r].username)
                  THEN [Idle EXCEPT !.kind = "edit_profile", !.pc = "done",
                                    !.errors = {"Username not available."},
                                    !.out = "form_errors"]
                  ELSE [@ EXCEPT !.pc = "commit"]]
    /\ UNCHANGED <<users, followers, posts>>

\* edit_profile, form.validate_on_submit(): validate_username looks the new
\* name up, on the rows stored by then, only when it differs from
\* original_username
edit_profile_validate(r) ==
    /\ req[r].kind = "edit_profile" /\ req[r].pc = "validate"
    /\ req' = [req EXCEPT ![r] =
                  IF req[r].username # req[r].old_username /\ username_taken(req[r].username)
                  THEN [Idle EXCEPT !.kind = "edit_profile", !.pc = "done",
                                    !.errors = {"Username not available."},
                                    !.out = "form_errors"]
                  ELSE [@ EXCEPT !.pc = "commit"]]
    /\ UNCHANGED <<users, followers, posts>>

\* edit_profile after validation: username and about_me are assigned to the
\* loaded object and committed. The UPDATE sets only the columns whose
\* assigned value differs from the loaded one, so a column assigned its loaded
\* value keeps whatever the row holds by then; a commit the unique constraint
\* refuses raises IntegrityError
edit_profile_commit(r) ==
    /\ req[r].kind = "edit_profile" /\ req[r].pc = "commit"
    /\ LET rows == [users EXCEPT
                       ![req[r].a].username =
                           IF req[r].username # req[r].old_username THEN req[r].username ELSE @,
                       ![req[r].a].about_me =
                           IF req[r].about_me # req[r].old_about_me THEN req[r].about_me ELSE @]
       IN  IF unique_violation(rows)
           THEN /\ users' = users
                /\ req' = [req EXCEPT ![r] = [Idle EXCEPT !.kind = "edit_profile", !.pc = "done",
                                                          !.out = "IntegrityError"]]
           ELSE /\ users' = rows
                /\ req' = [req EXCEPT ![r] = [Idle EXCEPT !.kind = "edit_profile", !.pc = "done",
                                                          !.out = "profile_updated"]]
    /\ UNCHANGED <<followers, posts>>

\* ------------------------------------------------- password reset email
\* the default of expires_in in get_reset_password_token, in seconds
DefaultExpiresIn == 600

\* User.query.filter_by(email=address).first()
user_by_email(address) ==
    IF email_taken(address) THEN CHOOSE i \in StoredIds : users[i].email = address ELSE None

\* send_email: the Message is built and Thread(target=send_async_email).start()
\* returns at once; the thread runs on its own from then on
send_email(recipient, body) ==
    mail' = Append(mail, [to |-> recipient, body |-> body, state |-> "running"])

\* send_password_reset_email(user): a token with the default lifetime is
\* issued and rendered into the message handed to send_email
send_password_reset_email(user) ==
    /\ get_reset_password_token(user, DefaultExpiresIn)
    /\ send_email(users[user].email, token')

\* reset_password_request, POST by a caller who is not logged in, up to the
\* return of send_password_reset_email: the user with the given email is
\* looked up and, when there is one, the email is handed to a new thread
reset_password_request_begin(r, address) ==
    /\ req[r].pc = "idle"
    /\ LET user == user_by_email(address)
       IN  IF user # None
           THEN /\ send_password_reset_email(user)
                /\ req' = [req EXCEPT ![r] =
                              [Idle EXCEPT !.kind = "reset_password_request", !.pc = "flash",
                                           !.a = user, !.b = Len(mail) + 1]]
           ELSE /\ req' = [req EXCEPT ![r] =
                              [Idle EXCEPT !.kind = "reset_password_request", !.pc = "flash"]]
                /\ UNCHANGED <<users, followers, posts, now, token, mail>>

\* a handler that waits for the delivery thread and lets its exception through
reset_password_request_finish_awaits(r) ==
    /\ req[r].kind = "reset_password_request" /\ req[r].pc = "flash"
    /\ req[r].b # None => mail[req[r].b].state # "running"
    /\ req' = [req EXCEPT ![r].pc = "done",
                          ![r].out = IF req[r].b # None /\ mail[req[r].b].state = "failed"
                                     THEN "SMTPException" ELSE "redirect_login"]
    /\ UNCHANGED <<users, followers, posts, now, token, mail>>

\* reset_password_request after send_password_reset_email has returned:
\* flash("Check your email ...") and the redirect to the login page
reset_password_request_finish(r) ==
    /\ req[r].kind = "reset_password_request" /\ req[r].pc = "flash"
    /\ req' = [req EXCEPT ![r].pc = "done", ![r].out = "redirect_login"]
    /\ UNCHANGED <<users, followers, posts, now, token, mail>>

\* send_async_email in thread t: mail.send(msg) returns
send_async_email(t) ==
    /\ t \in 1..Len(mail) /\ mail[t].state = "running"
    /\ mail' = [mail EXCEPT ![t].state = "sent"]
    /\ UNCHANGED <<users, followers, posts, now, token, req>>

\* send_async_email in thread t: mail.send(msg) raises (no server, refused
\* connection); the exception ends the thread and nothing else
send_async_email_raises(t) ==
    /\ t \in 1..Len(mail) /\ mail[t].state = "running"
    /\ mail' = [mail EXCEPT ![t].state = "failed"]
    /\ UNCHANGED <<users, followers, posts, now, token, req>>

\* the response has been sent: the slot is free for the next request
respond(r) ==
    /\ req[r].pc = "done"
    /\ req' = [req EXCEPT ![r] = Idle]
    /\ UNCHANGED <<users, followers, posts>>

\* the operation just handled, as the observer records it: its name, its
\* arguments and whether the edge (a, b) existed when it was called
Observe(op, a, b) ==
    last' = [op |-> op, a |-> a, b |-> b,
             had |-> IF a \in UserIds /\ b \in UserIds THEN is_following(a, b) ELSE FALSE]

\* no profile form has been submitted
NoForm == [u |-> None, username |-> None, about_me |-> None,
           old_username |-> None, old_about_me |-> None]

InitDb ==
    /\ users = <<>>
    /\ followers = [p \in UserIds \X UserIds |-> 0]
    /\ posts = <<>>

Init ==
    /\ InitDb
    /\ last = NoOp
    /\ view = NoView
    /\ req = [r \in Requests |-> Idle]
    /\ now = 0
    /\ token = NoToken
    /\ verified = NoVerify
    /\ plain = [u \in UserIds |-> [password |-> None, calls |-> 0]]
    /\ checked = NoCheck
    /\ form = NoForm
    /\ mail = <<>>

\* ---------------------------------------------- Spec: graph and post store
CredQuiet == UNCHANGED <<now, token, verified, plain, checked, form, mail>>

Next ==
    \/ Len(users) < NumUsers /\ add_user /\ UNCHANGED <<last, view, req>> /\ CredQuiet
    \/ \E a \in UserIds, b \in UserIds :
          follow(a, b) /\ UNCHANGED <<last, view, req>> /\ CredQuiet
    \/ \E a \in UserIds, b \in UserIds :
          unfollow(a, b) /\ UNCHANGED <<last, view, req>> /\ CredQuiet
    \/ \E u \in UserIds, ts \in Times :
          Len(posts) < MaxPosts /\ new_post(u, ts) /\ UNCHANGED <<last, view, req>> /\ CredQuiet

Spec == Init /\ [][Next]_vars

\* C1: the feed of u lists exactly the posts written by u or by a user u
\* currently follows: none by a user u does not follow, none of those missing.
C1_FeedMembership ==
    \A u \in StoredIds : \A q \in followed_posts(u) :
        Range(q) = {p \in PostIds : posts[p].user_id = u \/ is_following(u, posts[p].user_id)}

\* u follows v, v does not follow u, and both have written: v's post is in
\* u's feed and u's post is not in v's
C1_Witness ==
    \E u \in StoredIds, v \in StoredIds :
        /\ u # v
        /\ is_following(u, v) /\ ~is_following(v, u)
        /\ \E p \in PostIds, r \in PostIds : posts[p].user_id = u /\ posts[r].user_id = v
        /\ \E q \in followed_posts(u) : \E i \in 1..Len(q) : posts[q[i]].user_id = v
        /\ \A q \in followed_posts(v) : \A i \in 1..Len(q) : posts[q[i]].user_id = v

\* C13: no post is listed twice in a feed, also when the self-edge (u,u) is
\* stored, so that a post of u is both one of u's own posts and a post of a
\* user u follows.
C13_NoDoubleCount ==
    \A u \in StoredIds : \A q \in followed_posts(u) : Cardinality(Range(q)) = Len(q)

\* u follows u and has written a post: the join and the own-posts query both
\* return the post, and the feed lists it exactly once
C13_Witness ==
    \E u \in StoredIds, p \in PostIds :
        /\ is_following(u, u)
        /\ posts[p].user_id = u
        /\ join_rows(u)[p] = 1 /\ my_posts(u)[p] = 1
        /\ \A q \in followed_posts(u) : Cardinality({i \in 1..Len(q) : q[i] = p}) = 1

\* ------------------------------------ SpecFollow: follow/unfollow, observed
NextFollow ==
    \/ /\ Len(users) < NumUsers /\ add_user /\ Observe("add_user", Len(users) + 1, None)
       /\ UNCHANGED <<view, req>> /\ CredQuiet
    \/ \E a \in UserIds, b \in UserIds :
          follow(a, b) /\ Observe("follow", a, b) /\ UNCHANGED <<view, req>> /\ CredQuiet
    \/ \E a \in UserIds, b \in UserIds :
          unfollow(a, b) /\ Observe("unfollow", a, b) /\ UNCHANGED <<view, req>> /\ CredQuiet

SpecFollow == Init /\ [][NextFollow]_vars

\* C2: after follow(a,b), is_following(a,b) holds, b is among the users a
\* follows and a is among b's followers; after unfollow(a,b) all three are false.
C2_FollowUnfollowRoundTrip ==
    /\ last.op = "follow" =>
          /\ is_following(last.a, last.b)
          /\ last.b \in followed(last.a)
          /\ last.a \in followers_of(last.b)
    /\ last.op = "unfollow" =>
          /\ ~is_following(last.a, last.b)
          /\ last.b \notin followed(last.a)
          /\ last.a \notin followers_of(last.b)

\* an unfollow(a,b) has just removed an edge that a follow(a,b) had inserted
\* while the opposite edge stays in the table
C2_Witness ==
    /\ last.op = "unfollow"
    /\ last.had
    /\ last.a # last.b
    /\ followers[<<last.a, last.b>>] = 0
    /\ followers[<<last.b, last.a>>] = 1

\* C3: sequential follow is idempotent: the table never holds more than one
\* row per ordered pair, and right after follow(a,b) it holds exactly one.
C3_FollowIdempotent ==
    /\ \A a \in UserIds, b \in UserIds : followers[<<a, b>>] <= 1
    /\ last.op = "follow" => followers[<<last.a, last.b>>] = 1

\* follow(a,b) was called while the edge (a,b) existed and the pair still has
\* its single row
C3_Witness ==
    /\ last.op = "follow"
    /\ last.had
    /\ followers[<<last.a, last.b>>] = 1

\* ------------------- SpecFrame: follow/unfollow observed next to stored posts
\* posts are stamped by the clock, which advances between any two posts
NextFrame ==
    \/ /\ Len(users) < NumUsers /\ add_user /\ Observe("add_user", Len(users) + 1, None)
       /\ UNCHANGED <<view, req>> /\ CredQuiet
    \/ \E u \in UserIds :
          /\ Len(posts) < MaxFramePosts /\ new_post(u, Len(posts) + 1)
          /\ last' = NoOp /\ UNCHANGED <<view, req>> /\ CredQuiet
    \/ \E a \in UserIds, b \in UserIds :
          follow(a, b) /\ Observe("follow", a, b) /\ UNCHANGED <<view, req>> /\ CredQuiet
    \/ \E a \in UserIds, b \in UserIds :
          unfollow(a, b) /\ Observe("unfollow", a, b) /\ UNCHANGED <<view, req>> /\ CredQuiet

SpecFrame == Init /\ [][NextFrame]_vars

\* C15: follow(a,b) and unfollow(a,b) change nothing but the rows of the pair
\* (a,b): every other pair keeps its rows, the user table and the post table
\* are as before; unfollow(a,b) called when a does not follow b changes nothing.
C15_GraphMutationFrame ==
    [][last'.op \in {"follow", "unfollow"} =>
          /\ users' = users
          /\ posts' = posts
          /\ \A p \in UserIds \X UserIds :
                p # <<last'.a, last'.b>> => followers'[p] = followers[p]
          /\ (last'.op = "unfollow" /\ ~last'.had) => followers' = followers]_vars

\* unfollow(a,b) was called when a did not follow b, while a post and another
\* edge are stored: the other edge is still there
C15_Witness ==
    /\ last.op = "unfollow"
    /\ ~last.had
    /\ Len(posts) > 0
    /\ \E p \in UserIds \X UserIds : p # <<last.a, last.b>> /\ followers[p] = 1
    /\ followers[<<last.a, last.b>>] = 0

\* ------------------------------------------- SpecFeed: the feed as returned
NextFeed ==
    \/ /\ Len(users) < NumUsers /\ add_user
       /\ view' = NoView /\ UNCHANGED <<last, req>> /\ CredQuiet
    \/ \E a \in UserIds, b \in UserIds :
          follow(a, b) /\ view' = NoView /\ UNCHANGED <<last, req>> /\ CredQuiet
    \/ \E a \in UserIds, b \in UserIds :
          unfollow(a, b) /\ view' = NoView /\ UNCHANGED <<last, req>> /\ CredQuiet
    \/ \E u \in UserIds, ts \in Times :
          /\ Len(posts) < MaxPosts /\ new_post(u, ts)
          /\ view' = NoView /\ UNCHANGED <<last, req>> /\ CredQuiet
    \/ \E u \in UserIds : followed_posts_all(u) /\ UNCHANGED <<last, req>> /\ CredQuiet

SpecFeed == Init /\ [][NextFeed]_vars

\* q is in descending timestamp order, the larger id first among equal timestamps
TotalOrder(q) ==
    \A i \in 1..Len(q), j \in 1..Len(q) :
        i < j => \/ posts[q[i]].timestamp > posts[q[j]].timestamp
                 \/ posts[q[i]].timestamp = posts[q[j]].timestamp /\ q[i] > q[j]

\* C5: the feed comes in descending timestamp order and, among posts with
\* equal timestamps, the post with the larger id comes first.
C5_FeedTotalOrder == view.op = "all" => TotalOrder(view.q)

\* --------------------------------------------- SpecPage: pages of the feed
Pages == (0 - 1)..(MaxFeedPosts + 1)

\* a commit of another request leaves a paginate call that is between its two
\* statements as it is; a finished result is forgotten
KeepInProgress == view' = IF view.op = "items" THEN view ELSE NoView

\* posts written through the index form are stamped by the clock (default
\* utcnow); here the clock advances between any two posts. Other requests
\* commit users, posts and edges at any time. The feed is requested through
\* index, the only caller of paginate on followed_posts; app.config is loaded
\* from Config alone, so every such request ends at the KeyError, no paginate
\* call is started and there is none for paginate_count to finish
NextPage ==
    \/ /\ Len(users) < NumUsers /\ add_user
       /\ KeepInProgress /\ UNCHANGED <<last, req>> /\ CredQuiet
    \/ \E u \in UserIds :
          /\ Len(posts) < MaxFeedPosts /\ new_post(u, Len(posts) + 1)
          /\ KeepInProgress /\ UNCHANGED <<last, req>> /\ CredQuiet
    \/ \E a \in UserIds, b \in UserIds :
          follow(a, b) /\ KeepInProgress /\ UNCHANGED <<last, req>> /\ CredQuiet
    \/ \E a \in UserIds, b \in UserIds :
          unfollow(a, b) /\ KeepInProgress /\ UNCHANGED <<last, req>> /\ CredQuiet
    \/ \E u \in UserIds, p \in Pages : index(u, p) /\ UNCHANGED <<last, req>> /\ CredQuiet

SpecPage == Init /\ [][NextPage]_vars

\* a feed request has been answered, with a page or with an error
Answered == view.op \in {"paginate", "index"}

\* C6: a feed request for a page p >= 1 returns, for the configured page size
\* s and the N posts of the ordered feed, the posts at positions
\* (p-1)*s+1 .. min(p*s, N) as items, has_prev true exactly when p > 1 and
\* has_next true exactly when p*s < N.
C6_PaginationWindow ==
    (Answered /\ view.req_page >= 1) =>
        LET p == view.req_page
            s == view.per_page
            N == Len(view.q)
            first == (p - 1) * s + 1
            lst == Min(p * s, N)
        IN  /\ view.status = "ok"
            /\ s >= 1
            /\ N = count(view.u)
            /\ Len(view.items) = (IF lst >= first THEN lst - first + 1 ELSE 0)
            /\ \A i \in 1..Len(view.items) : view.items[i] = view.q[first + i - 1]
            /\ view.has_prev = (p > 1)
            /\ view.has_next = (p * s < N)

\* the requested page lies outside the pages of the feed
OutOfRange ==
    \/ view.req_page < 1
    \/ view.per_page > 0 /\ (view.req_page - 1) * view.per_page >= Len(view.q)

\* C7: a feed request for a page beyond the last page, or for a page <= 0,
\* returns normally and its items are empty.
C7_OutOfRangePagesEmpty ==
    (Answered /\ OutOfRange) =>
        view.status = "ok" /\ view.items = <<>>

\* --------------------------------------- SpecRace: follow and unfollow requests interleaved
NextRace ==
    \/ Len(users) < NumUsers /\ add_user /\ UNCHANGED <<last, view, req>> /\ CredQuiet
    \/ \E r \in Requests, a \in UserIds, b \in UserIds :
          follow_begin(r, a, b) /\ UNCHANGED <<last, view>> /\ CredQuiet
    \/ \E r \in Requests : follow_check(r) /\ UNCHANGED <<last, view>> /\ CredQuiet
    \/ \E r \in Requests : follow_insert(r) /\ UNCHANGED <<last, view>> /\ CredQuiet
    \/ \E r \in Requests : follow_commit(r) /\ UNCHANGED <<last, view>> /\ CredQuiet
    \/ \E r \in Requests, a \in UserIds, b \in UserIds :
          unfollow_begin(r, a, b) /\ UNCHANGED <<last, view>> /\ CredQuiet
    \/ \E r \in Requests : unfollow_check(r) /\ UNCHANGED <<last, view>> /\ CredQuiet
    \/ \E r \in Requests : unfollow_remove(r) /\ UNCHANGED <<last, view>> /\ CredQuiet
    \/ \E r \in Requests : unfollow_commit(r) /\ UNCHANGED <<last, view>> /\ CredQuiet
    \/ \E r \in Requests : respond(r) /\ UNCHANGED <<last, view>> /\ CredQuiet

SpecRace == Init /\ [][NextRace]_vars

\* C4: however two follow requests for the same pair interleave, the followers
\* table ends with at most one row for the pair.
C4_ConcurrentFollowOneRow ==
    \A a \in UserIds, b \in UserIds :
        (\A r \in Requests : req[r].pc \in {"idle", "done"}) => followers[<<a, b>>] <= 1

\* ------------------------------------------------ SpecToken: reset tokens
NextToken ==
    \/ /\ Len(users) < NumUsers /\ add_user
       /\ verified' = NoVerify
       /\ UNCHANGED <<form, mail, last, view, req, now, token, plain, checked>>
    \/ /\ now < MaxClock /\ tick
       /\ verified' = NoVerify
       /\ UNCHANGED <<form, mail, last, view, req, plain, checked>>
    \/ \E u \in UserIds, ttl \in 0..MaxTtl :
          /\ get_reset_password_token(u, ttl)
          /\ verified' = NoVerify
          /\ UNCHANGED <<form, mail, last, view, req, plain, checked>>
    \/ \E t \in Tokens :
          verify_reset_password_token(t) /\ UNCHANGED <<form, mail, last, view, req, plain, checked>>

SpecToken == Init /\ [][NextToken]_vars

\* C8: verify_reset_password_token returns user u exactly when the token is
\* signed with the process key, names u, is checked strictly before its expiry
\* and u is stored; every other token yields None, and the call always returns.
C8_VerifyResetToken ==
    verified.op = "verify" =>
        LET t == verified.token
            good == /\ t.wellformed
                    /\ t.key = Config.SECRET_KEY
                    /\ verified.at < t.exp
                    /\ t.reset_password \in StoredIds
        IN  /\ verified.status = "returned"
            /\ good => verified.result = t.reset_password
            /\ ~good => verified.result = None

\* the token the application issued for a stored user is presented at the
\* instant of its expiry and rejected
C8_Witness ==
    /\ verified.op = "verify"
    /\ token.wellformed
    /\ verified.token = token
    /\ token.reset_password \in StoredIds
    /\ verified.at = token.exp
    /\ verified.result = None

\* -------------------------------------------- SpecPassword: password hashes
NextPassword ==
    \/ /\ Len(users) < NumUsers /\ add_user
       /\ checked' = NoCheck
       /\ UNCHANGED <<form, mail, last, view, req, now, token, verified, plain>>
    \/ \E u \in UserIds, pw \in Passwords, salt \in Salts :
          /\ set_password(u, pw, salt) /\ Remember(u, pw)
          /\ checked' = NoCheck
          /\ UNCHANGED <<form, mail, last, view, req, now, token, verified>>
    \/ \E u \in UserIds, q \in Passwords :
          check_password(u, q) /\ UNCHANGED <<form, mail, last, view, req, now, token, verified, plain>>

SpecPassword == Init /\ [][NextPassword]_vars

\* C9: once set_password has been called on a user, check_password(q) returns
\* (it does not raise) and returns true exactly when q is the plaintext of the
\* latest set_password call.
C9_CheckPasswordLatest ==
    (checked.op = "check_password" /\ plain[checked.u].calls > 0) =>
        /\ checked.status = "returned"
        /\ checked.result = (checked.q = plain[checked.u].password)

\* a password set twice is checked against a plaintext that is not the
\* latest one and the check returns false
C9_Witness ==
    /\ checked.op = "check_password"
    /\ plain[checked.u].calls = 2
    /\ checked.q # plain[checked.u].password
    /\ checked.status = "returned"
    /\ ~checked.result

\* ------------------- SpecAccounts: registration and profile edits interleaved
\* the password typed into the registration form; no handler of this
\* specification reads it back
FormPassword == CHOOSE pw \in Passwords : TRUE
FormSalt == CHOOSE salt \in Salts : TRUE

\* the about_me text typed into the profile form; the uniqueness of usernames
\* and emails does not depend on it
FormAbout == CHOOSE t \in Abouts : TRUE

NextAccounts ==
    \/ \E r \in Requests, n \in Usernames, e \in Emails :
          register_validate_username(r, n, e) /\ UNCHANGED <<last, view>> /\ CredQuiet
    \/ \E r \in Requests : register_validate_email(r) /\ UNCHANGED <<last, view>> /\ CredQuiet
    \/ \E r \in Requests :
          /\ Len(users) < NumUsers
          /\ register_commit(r, FormPassword, FormSalt)
          /\ UNCHANGED <<last, view>> /\ CredQuiet
    \/ \E r \in Requests, u \in UserIds, n \in Usernames :
          edit_profile_load(r, u, n, FormAbout) /\ UNCHANGED <<last, view>> /\ CredQuiet
    \/ \E r \in Requests : edit_profile_validate(r) /\ UNCHANGED <<last, view>> /\ CredQuiet
    \/ \E r \in Requests : edit_profile_commit(r) /\ UNCHANGED <<last, view>> /\ CredQuiet
    \/ \E r \in Requests : respond(r) /\ UNCHANGED <<last, view>> /\ CredQuiet

SpecAccounts == Init /\ [][NextAccounts]_vars

\* C10: in every state reached by interleaved registrations and profile
\* edits, no two stored users share a username and no two share an email.
C10_UniqueUsernameEmail ==
    \A i \in StoredIds, j \in StoredIds :
        i # j => users[i].username # users[j].username /\ users[i].email # users[j].email

\* two users are stored and a request that had passed form validation was
\* refused at commit because its username or email had been taken meanwhile
C10_Witness ==
    /\ Len(users) = 2
    /\ \E r \in Requests : req[r].pc = "done" /\ req[r].out = "IntegrityError"

\* C11: a registration for a username or email that a stored user holds ends
\* with the form's validation errors returned to the caller, never with an
\* exception the handler does not catch, also when two registrations for the
\* same name both pass validation before either commits; and no second user
\* with that username or email is stored.
C11_DuplicateRegistrationReturnsErrors ==
    /\ \A r \in Requests :
          (req[r].kind = "register" /\ req[r].pc = "done") =>
              req[r].out \in {"registered", "form_errors"}
    /\ \A i \in StoredIds, j \in StoredIds :
          i # j => users[i].username # users[j].username /\ users[i].email # users[j].email

\* ------------------------- SpecProfile: one request at a time, forms observed
\* no request is in progress
AllIdle == \A r \in Requests : req[r].pc = "idle"

\* the observer's record of the submitted profile form and of the caller's row
\* at the time of the submission
Submitted(u, username, about_me) ==
    form' = [u |-> u, username |-> username, about_me |-> about_me,
             old_username |-> users[u].username, old_about_me |-> users[u].about_me]

NextProfile ==
    \/ \E r \in Requests, n \in Usernames, e \in Emails :
          /\ AllIdle /\ register_validate_username(r, n, e)
          /\ UNCHANGED <<last, view>> /\ CredQuiet
    \/ \E r \in Requests : register_validate_email(r) /\ UNCHANGED <<last, view>> /\ CredQuiet
    \/ \E r \in Requests :
          /\ Len(users) < NumUsers
          /\ register_commit(r, FormPassword, FormSalt)
          /\ UNCHANGED <<last, view>> /\ CredQuiet
    \/ \E r \in Requests, u \in UserIds, n \in Usernames, t \in Abouts :
          /\ AllIdle /\ edit_profile_load(r, u, n, t) /\ Submitted(u, n, t)
          /\ UNCHANGED <<last, view, now, token, verified, plain, checked, mail>>
    \/ \E r \in Requests : edit_profile_validate(r) /\ UNCHANGED <<last, view>> /\ CredQuiet
    \/ \E r \in Requests :
          edit_profile_commit(r) /\ UNCHANGED <<last, view>> /\ CredQuiet
    \/ \E r \in Requests : respond(r) /\ UNCHANGED <<last, view>> /\ CredQuiet

SpecProfile == Init /\ [][NextProfile]_vars

\* C12: a profile edit whose new username differs from the caller's current
\* one and is held by another user fails with "Username not available." and
\* leaves the caller's username and about_me as they were; an edit whose
\* username is the caller's current one or is free applies both the username
\* and the about_me.
C12_UpdateProfile ==
    \A r \in Requests :
        (req[r].kind = "edit_profile" /\ req[r].pc = "done") =>
            LET u == form.u
                collides == /\ form.username # form.old_username
                            /\ \E i \in StoredIds \ {u} : users[i].username = form.username
            IN  IF collides
                THEN /\ req[r].out = "form_errors"
                     /\ req[r].errors = {"Username not available."}
                     /\ users[u].username = form.old_username
                     /\ users[u].about_me = form.old_about_me
                ELSE /\ req[r].out = "profile_updated"
                     /\ users[u].username = form.username
                     /\ users[u].about_me = form.about_me

\* a user asked for the name another user holds together with a new about_me:
\* the edit was refused and the row keeps its old username and about_me
C12_Witness ==
    \E r \in Requests :
        /\ req[r].kind = "edit_profile" /\ req[r].pc = "done"
        /\ req[r].out = "form_errors"
        /\ form.username # form.old_username
        /\ form.about_me # form.old_about_me
        /\ \E i \in StoredIds \ {form.u} : users[i].username = form.username
        /\ users[form.u].username = form.old_username
        /\ users[form.u].about_me = form.old_about_me

\* --------------- SpecRoutes: follow and unfollow requests, one after another
NextRoutes ==
    \/ /\ AllIdle /\ Len(users) < NumUsers /\ add_user
       /\ UNCHANGED <<last, view, req>> /\ CredQuiet
    \/ \E r \in Requests, a \in Callers, b \in UserIds :
          AllIdle /\ follow_begin(r, a, b) /\ UNCHANGED <<last, view>> /\ CredQuiet
    \/ \E r \in Requests : follow_check(r) /\ UNCHANGED <<last, view>> /\ CredQuiet
    \/ \E r \in Requests : follow_insert(r) /\ UNCHANGED <<last, view>> /\ CredQuiet
    \/ \E r \in Requests : follow_commit(r) /\ UNCHANGED <<last, view>> /\ CredQuiet
    \/ \E r \in Requests, a \in Callers, b \in UserIds :
          AllIdle /\ unfollow_begin(r, a, b) /\ UNCHANGED <<last, view>> /\ CredQuiet
    \/ \E r \in Requests : unfollow_check(r) /\ UNCHANGED <<last, view>> /\ CredQuiet
    \/ \E r \in Requests : unfollow_remove(r) /\ UNCHANGED <<last, view>> /\ CredQuiet
    \/ \E r \in Requests : unfollow_commit(r) /\ UNCHANGED <<last, view>> /\ CredQuiet
    \/ \E r \in Requests : respond(r) /\ UNCHANGED <<last, view>> /\ CredQuiet

SpecRoutes == Init /\ [][NextRoutes]_vars

\* C14: a follow request whose target is the caller is answered "You cannot
\* follow yourself" and inserts nothing: after any sequence of follow and
\* unfollow requests no edge (u,u) is stored.
C14_NoSelfFollowThroughRoutes ==
    /\ \A u \in UserIds : followers[<<u, u>>] = 0
    /\ \A r \in Requests :
          (req[r].kind = "follow" /\ req[r].pc = "done" /\ req[r].a # None
              /\ req[r].a = req[r].b) => req[r].out = "cannot_follow_yourself"

\* a user who follows another user has asked to follow themselves: the
\* request was refused, the edge to the other user is the only one they have
C14_Witness ==
    \E r \in Requests :
        /\ req[r].kind = "follow" /\ req[r].pc = "done"
        /\ req[r].a \in StoredIds /\ req[r].a = req[r].b
        /\ req[r].out = "cannot_follow_yourself"
        /\ followers[<<req[r].a, req[r].a>>] = 0
        /\ \E v \in StoredIds : v # req[r].a /\ followers[<<req[r].a, v>>] = 1

\* C17: a follow or unfollow request for a stored user made by a caller who
\* is not logged in is redirected to the login page, raises nothing and leaves
\* the followers table as it was; unfollow is never called on the anonymous
\* user.
C17_GraphMutationNeedsLogin ==
    \A r \in Requests :
        (/\ req[r].kind \in {"follow", "unfollow"} /\ req[r].pc = "done"
         /\ req[r].a = None /\ req[r].b \in StoredIds)
            => req[r].out = "redirect_login"

\* ------------------- SpecMail: password reset requests and delivery threads
MailQuiet == UNCHANGED <<last, view, verified, plain, checked, form>>

\* the step of request r that ends the handler
Finish(r) == reset_password_request_finish(r) /\ MailQuiet

NextMail ==
    \/ /\ AllIdle /\ Len(users) < NumUsers /\ add_user
       /\ UNCHANGED <<req, now, token, mail>> /\ MailQuiet
    \/ \E r \in Requests, e \in UserIds :
          /\ AllIdle /\ Len(mail) < MaxMails
          /\ reset_password_request_begin(r, e) /\ MailQuiet
    \/ \E r \in Requests : Finish(r)
    \/ \E t \in 1..MaxMails : send_async_email(t) /\ MailQuiet
    \/ \E t \in 1..MaxMails : send_async_email_raises(t) /\ MailQuiet
    \/ \E r \in Requests :
          respond(r) /\ UNCHANGED <<now, token, mail>> /\ MailQuiet

\* the request's own thread keeps running: a handler that can return does
SpecMail == Init /\ [][NextMail]_vars /\ \A r \in Requests : WF_vars(Finish(r))

\* C16: a password reset request that has handed its email to the delivery
\* thread always goes on to its normal response, the redirect to the login
\* page, whether the thread has not run yet, has delivered or has failed; no
\* finished request has another outcome.
C16_ResetEmailFireAndForget ==
    /\ [](\A r \in Requests :
            (req[r].kind = "reset_password_request" /\ req[r].pc = "done")
                => req[r].out = "redirect_login")
    /\ \A r \in Requests :
          (req[r].kind = "reset_password_request" /\ req[r].pc = "flash")
              ~> (/\ req[r].kind = "reset_password_request" /\ req[r].pc = "done"
                  /\ req[r].out = "redirect_login")

\* a request whose delivery thread failed has ended with the redirect to the
\* login page, while the thread of an earlier request is still running
C16_Witness ==
    \E r \in Requests :
        /\ req[r].kind = "reset_password_request" /\ req[r].pc = "done"
        /\ req[r].out = "redirect_login"
        /\ req[r].b # None
        /\ mail[req[r].b].state = "failed"
        /\ \E t \in 1..Len(mail) : mail[t].state = "running"
====
